---- MODULE Spec2Model ----
(***************************************************************************)
(* Model of the astro db configuration layer (collections, fields,        *)
(* deferred table binding, schema validation) and of the two framework    *)
(* behaviours its acceptance tests pin down (tsconfig resolution, the      *)
(* prerender decision of a server build).                                  *)
(***************************************************************************)
EXTENDS Integers, Sequences, FiniteSets, TLC

VARIABLES
    revision,     \* which revision of the db config module is loaded
    fieldObjs,    \* heap of field objects, indexed by reference
    collections,  \* the collection objects returned by define*Collection
    lastBound,    \* history: table passed to the last _setMeta of each collection
    call,         \* last call of a field constructor: [fn, arg, result]
    config,       \* the user's db config handed to dbConfigSchema
    parsed,       \* what dbConfigSchema made of it
    resolved,     \* what calling the validated `references` functions gave
    dirs,         \* the tsconfig.json / jsconfig.json of each directory
    loaded,       \* last call of loadTSConfig: [dir, result]
    fixture,      \* a server-output project: its pages and its integration
    prerender,    \* route.prerender of each page's route
    phase,        \* how far the build has got
    assets,       \* manifest.assets of the built app
    response      \* last app.render: [route, status]

dbVars == <<revision, fieldObjs, collections, lastBound>>
zodVars == <<config, parsed, resolved>>
tsVars == <<dirs, loaded>>
ssrVars == <<fixture, prerender, phase, assets, response>>
vars == <<revision, fieldObjs, collections, lastBound, call, config, parsed, resolved,
          dirs, loaded, fixture, prerender, phase, assets, response>>

----------------------------------------------------------------------------
(* JavaScript values: <<typeof, payload>>.  An object is a function from   *)
(* its own property keys to values; an absent key is not in its DOMAIN.    *)

Undefined == <<"undefined">>
Null == <<"null">>
Bool(b) == <<"boolean", b>>
Str(s) == <<"string", s>>
Num(n) == <<"number", n>>
Fn(id) == <<"function", id>>

EmptyObj == [k \in {} |-> Undefined]

Has(o, k) == k \in DOMAIN o

\* property read: o.k
Get(o, k) == IF k \in DOMAIN o THEN o[k] ELSE Undefined

\* property write: o.k = v
Assign(o, k, v) == [x \in (DOMAIN o) \cup {k} |-> IF x = k THEN v ELSE o[x]]

\* object spread { ...a, ...b }: later keys win
Spread(a, b) == [x \in (DOMAIN a) \cup (DOMAIN b) |-> IF x \in DOMAIN b THEN b[x] ELSE a[x]]

\* an object passed as an argument (an argument may also be Undefined)
Obj(o) == <<"object", o>>

\* spreading an argument: `...opts`; spreading undefined adds nothing
SpreadArg(arg) == IF arg = Undefined THEN EmptyObj ELSE arg[2]

\* a parameter declared `opts = {}`
DefaultParam(arg) == IF arg = Undefined THEN Obj(EmptyObj) ELSE arg

----------------------------------------------------------------------------
(* Field constructors, revision src/unnamed/part_000 *)

field_number(arg) == Spread([type |-> Str("number")], SpreadArg(DefaultParam(arg)))

field_boolean(arg) == Spread([type |-> Str("boolean")], SpreadArg(DefaultParam(arg)))

field_text(arg) == Spread([type |-> Str("text")], SpreadArg(DefaultParam(arg)))

field_date(arg) == Spread([type |-> Str("date")], SpreadArg(arg))

field_json(arg) == Spread([type |-> Str("json")], SpreadArg(arg))

(* Field constructors, revision src/packages/db/src/config.ts *)

\* faulty variant: the defaults mark every field optional
baseDefaults_mut ==
    [optional |-> Bool(TRUE), unique |-> Bool(FALSE), label |-> Undefined, default |-> Undefined]

baseDefaults ==
    [optional |-> Bool(FALSE), unique |-> Bool(FALSE), label |-> Undefined, default |-> Undefined]

config_field_number(arg) ==
    Spread(Spread([type |-> Str("number")], baseDefaults), SpreadArg(DefaultParam(arg)))

config_field_boolean(arg) ==
    Spread(Spread([type |-> Str("boolean")], baseDefaults), SpreadArg(DefaultParam(arg)))

config_field_text(arg) ==
    Spread(Spread([type |-> Str("text"), multiline |-> Bool(FALSE)], baseDefaults),
           SpreadArg(DefaultParam(arg)))

config_field_date(arg) ==
    Spread(Spread([type |-> Str("date")], baseDefaults), SpreadArg(DefaultParam(arg)))

config_field_json(arg) ==
    Spread(Spread([type |-> Str("json")], baseDefaults), SpreadArg(DefaultParam(arg)))

FieldKinds == {"number", "boolean", "text", "date", "json"}

Revisions == {"part_000", "config.ts"}

\* field[kind](arg) of the loaded revision
field(rev, kind, arg) ==
    IF rev = "part_000"
    THEN CASE kind = "number" -> field_number(arg)
           [] kind = "boolean" -> field_boolean(arg)
           [] kind = "text" -> field_text(arg)
           [] kind = "date" -> field_date(arg)
           [] kind = "json" -> field_json(arg)
    ELSE CASE kind = "number" -> config_field_number(arg)
           [] kind = "boolean" -> config_field_boolean(arg)
           [] kind = "text" -> config_field_text(arg)
           [] kind = "date" -> config_field_date(arg)
           [] kind = "json" -> config_field_json(arg)

----------------------------------------------------------------------------
(* Collections: defineCollection / defineWritableCollection / _setMeta *)

MaxCollections == 2

\* references of the two field objects the user's declarations are built from
FieldRefs == {1, 2}

\* The field objects, made with the loaded revision's constructors.
InitialField(rev, i) ==
    IF i = 1
    THEN field(rev, "number", Obj([label |-> Str("id"), unique |-> Bool(TRUE)]))
    ELSE field(rev, "text", Obj([optional |-> Bool(TRUE), default |-> Str("x"),
                                 references |-> Fn("references")]))

\* A `fields` object is the sequence of its <<key, field reference>> entries
\* in own-property (for-in) order; the same reference may occur twice.
KeyOrders == {<<"a">>, <<"b", "a">>}

FieldsObjects ==
    UNION {{[i \in 1..Len(ks) |-> <<ks[i], r[i]>>] : r \in [1..Len(ks) -> FieldRefs]} :
           ks \in KeyOrders}

\* What else a user config may carry beside `fields`.
ExtraKeys ==
    [indexes |-> <<"object", "indexes">>, foreignKeys |-> <<"object", "foreignKeys">>,
     writable |-> Str("yes"), table |-> Str("mine"), _setMeta |-> Str("mine")]

\* The user configs passed to define*Collection: one-field configs carry
\* `fields` alone, two-field configs carry the other keys too.
UserConfigs ==
    {IF Len(fo) = 1 THEN [fields |-> fo] ELSE Spread([fields |-> fo], ExtraKeys) :
     fo \in FieldsObjects}

Table(name) == <<"table", name>>

Tables == {Table("users"), Table("posts")}

getTableName(table) == table[2]

\* faulty variant: the naming loop also overwrites the field's label
RECURSIVE nameFields_mut(_, _)
nameFields_mut(heap, fo) ==
    IF fo = <<>> THEN heap
    ELSE LET fieldName == Head(fo)[1]
             ref == Head(fo)[2]
         IN nameFields_mut(
                [heap EXCEPT ![ref] = Assign(Assign(@, "name", Str(fieldName)),
                                             "label", Str(fieldName))],
                Tail(fo))

\* for (const fieldName in userConfig.fields) field.name = fieldName
RECURSIVE nameFields(_, _)
nameFields(heap, fo) ==
    IF fo = <<>> THEN heap
    ELSE LET fieldName == Head(fo)[1]
             ref == Head(fo)[2]
         IN nameFields([heap EXCEPT ![ref] = Assign(@, "name", Str(fieldName))], Tail(fo))

\* for (const fieldName in userConfig.fields) field.collection = tableName
RECURSIVE setFieldsCollection(_, _, _)
setFieldsCollection(heap, fo, tableName) ==
    IF fo = <<>> THEN heap
    ELSE LET ref == Head(fo)[2]
         IN setFieldsCollection([heap EXCEPT ![ref] = Assign(@, "collection", Str(tableName))],
                                Tail(fo), tableName)

\* faulty variant: the user config is spread last and overrides the tag
resolvedCollection_mut(userConfig, writable) ==
    Spread([table |-> <<"getter", "meta.table">>, writable |-> Bool(writable),
            _setMeta |-> Fn("_setMeta")],
           userConfig)

\* the object literal returned by baseDefineCollection
resolvedCollection(userConfig, writable) ==
    Spread(userConfig,
           [table |-> <<"getter", "meta.table">>, writable |-> Bool(writable),
            _setMeta |-> Fn("_setMeta")])

\* the object literal returned by config.ts defineCollection / defineWritableCollection
config_resolvedCollection(userConfig, writable) ==
    Spread(userConfig, [writable |-> Bool(writable)])

\* faulty variant: only the first binding takes effect
assignMeta_mut(meta, values) ==
    IF meta["table"] = <<"null">> THEN Spread(meta, values) ELSE meta

\* Object.assign(meta, values)
assignMeta(meta, values) == Spread(meta, values)

\* reading collection.table
ReadTable(c) ==
    IF Get(c.obj, "table") = <<"getter", "meta.table">> THEN c.meta["table"]
    ELSE Get(c.obj, "table")

NoTable == <<"none">>

baseDefineCollection(userConfig, writable, definedBy) ==
    /\ revision = "part_000"
    /\ Len(collections) < MaxCollections
    /\ fieldObjs' = nameFields(fieldObjs, userConfig["fields"])
    /\ collections' = Append(collections,
            [obj |-> resolvedCollection(userConfig, writable),
             userConfig |-> userConfig,
             meta |-> [table |-> Null],
             definedBy |-> definedBy])
    /\ lastBound' = Append(lastBound, NoTable)
    /\ UNCHANGED <<revision, call, zodVars, tsVars, ssrVars>>

defineCollection ==
    \E userConfig \in UserConfigs : baseDefineCollection(userConfig, FALSE, "defineCollection")

defineWritableCollection ==
    \E userConfig \in UserConfigs :
        baseDefineCollection(userConfig, TRUE, "defineWritableCollection")

config_define(userConfig, writable, definedBy) ==
    /\ revision = "config.ts"
    /\ Len(collections) < MaxCollections
    /\ collections' = Append(collections,
            [obj |-> config_resolvedCollection(userConfig, writable),
             userConfig |-> userConfig,
             meta |-> EmptyObj,
             definedBy |-> definedBy])
    /\ lastBound' = Append(lastBound, NoTable)
    /\ UNCHANGED <<revision, fieldObjs, call, zodVars, tsVars, ssrVars>>

config_defineCollection ==
    \E userConfig \in UserConfigs : config_define(userConfig, FALSE, "defineCollection")

config_defineWritableCollection ==
    \E userConfig \in UserConfigs : config_define(userConfig, TRUE, "defineWritableCollection")

\* collection._setMeta({ table })
setMeta(c, table) ==
    /\ revision = "part_000"
    /\ c \in 1..Len(collections)
    /\ LET meta == assignMeta(collections[c].meta, [table |-> table])
           tableName == getTableName(meta["table"])
       IN /\ collections' = [collections EXCEPT ![c].meta = meta]
          /\ fieldObjs' = setFieldsCollection(fieldObjs, collections[c].userConfig["fields"],
                                              tableName)
    /\ lastBound' = [lastBound EXCEPT ![c] = table]
    /\ UNCHANGED <<revision, call, zodVars, tsVars, ssrVars>>

_setMeta == \E c \in 1..MaxCollections, table \in Tables : setMeta(c, table)

NoCall == [fn |-> "none"]

NotYet == <<"not yet">>

\* nothing has been validated
IdleZod == config = EmptyObj /\ parsed = NotYet /\ resolved = NotYet

\* no directory is looked at
NoLoad == [dir |-> "none"]

IdleTs == dirs = <<>> /\ loaded = NoLoad

\* no project is built
NoResponse == [route |-> "none"]

IdleSsr ==
    /\ fixture = NotYet
    /\ prerender = <<>>
    /\ phase = "none"
    /\ assets = {}
    /\ response = NoResponse

InitDb ==
    /\ revision \in Revisions
    /\ fieldObjs = [i \in FieldRefs |-> InitialField(revision, i)]
    /\ collections = <<>>
    /\ lastBound = <<>>
    /\ call = NoCall
    /\ IdleZod
    /\ IdleTs
    /\ IdleSsr

NextDb ==
    \/ defineCollection
    \/ defineWritableCollection
    \/ _setMeta
    \/ config_defineCollection
    \/ config_defineWritableCollection

SpecDb == InitDb /\ [][NextDb]_vars

----------------------------------------------------------------------------
(* Properties of the collections model *)

\* the <<key, reference>> entries of collection c's `fields`
FieldsOf(c) == collections[c].obj["fields"]

Entries(fo) == {fo[i] : i \in 1..Len(fo)}

\* C1: every field of every collection defined so far has `name` equal to the
\* key it is stored under in that collection's `fields`, shared field objects
\* included.
C1_FieldNameIsKey ==
    revision = "part_000" =>
        \A c \in 1..Len(collections) : \A e \in Entries(FieldsOf(c)) :
            Get(fieldObjs[e[2]], "name") = Str(e[1])

\* C2: once _setMeta has bound a table to a collection, every field of that
\* collection has `collection` equal to the name of the table most recently
\* bound to that collection, whatever happened to other collections since; and
\* a field none of whose collections has been bound carries no `collection`.
C2_FieldCollectionIsBoundTable ==
    revision = "part_000" =>
        /\ \A c \in 1..Len(collections) :
              lastBound[c] # NoTable =>
                  \A e \in Entries(FieldsOf(c)) :
                      Get(fieldObjs[e[2]], "collection") = Str(getTableName(lastBound[c]))
        /\ \A r \in FieldRefs :
              (\A c \in 1..Len(collections) :
                   (\E e \in Entries(FieldsOf(c)) : e[2] = r) => lastBound[c] = NoTable)
              => ~Has(fieldObjs[r], "collection")

\* C3: reading `table` yields null until the first _setMeta on that
\* collection, and afterwards exactly the table passed to the most recent
\* _setMeta on that same collection, whatever was bound to other collections.
C3_TableBoundLate ==
    revision = "part_000" =>
        \A c \in 1..Len(collections) :
            ReadTable(collections[c]) =
                (IF lastBound[c] = NoTable THEN Null ELSE lastBound[c])

\* two collections, the first bound twice over (its last table differs from
\* the second's), the second bound once
C3_Witness ==
    /\ revision = "part_000"
    /\ Len(collections) = 2
    /\ ReadTable(collections[1]) = Table("users")
    /\ ReadTable(collections[2]) = Table("posts")
    /\ Has(collections[2].userConfig, "table")

\* C4: a collection is tagged writable = false by defineCollection and
\* writable = true by defineWritableCollection in both revisions, whatever
\* keys the user config carries, and _setMeta never changes the tag.
C4_WritableTag ==
    \A c \in 1..Len(collections) :
        /\ Has(collections[c].obj, "writable")
        /\ collections[c].obj["writable"] =
               Bool(collections[c].definedBy = "defineWritableCollection")

\* a read-only collection made from a user config that carries its own
\* `writable` key, after a _setMeta call on it
C4_Witness ==
    /\ revision = "part_000"
    /\ \E c \in 1..Len(collections) :
          /\ collections[c].definedBy = "defineCollection"
          /\ Has(collections[c].userConfig, "writable")
          /\ lastBound[c] # NoTable

\* the keys of a field that baseDefineCollection and _setMeta may write
DerivedKeys == {"name", "collection"}

SameKey(o1, o2, k) == (Has(o1, k) <=> Has(o2, k)) /\ Get(o1, k) = Get(o2, k)

C10_Step ==
    revision = "part_000" =>
        \* collection objects and user configs already there keep their own keys
        /\ \A i \in 1..Len(collections) :
              /\ collections'[i].obj = collections[i].obj
              /\ collections'[i].userConfig = collections[i].userConfig
        \* every field keeps type, label, optional, unique, default, references
        /\ \A r \in FieldRefs :
              \A k \in ((DOMAIN fieldObjs[r]) \cup (DOMAIN fieldObjs'[r])) \ DerivedKeys :
                  SameKey(fieldObjs[r], fieldObjs'[r], k)
        \* a define call with user config u (held by value in the closure)
        /\ Len(collections') = Len(collections) + 1 =>
              LET new == collections'[Len(collections')]
              IN \A u \in UserConfigs, w \in BOOLEAN,
                    d \in {"defineCollection", "defineWritableCollection"} :
                     (new.userConfig = u /\ new.definedBy = d
                      /\ baseDefineCollection(u, w, d)) =>
                         /\ DOMAIN new.userConfig = DOMAIN u
                         /\ \A k \in {"fields", "indexes", "foreignKeys"} :
                               SameKey(new.obj, u, k)
                         /\ \A r \in FieldRefs :
                               SameKey(fieldObjs[r], fieldObjs'[r], "collection")
                         /\ \A i \in 1..Len(collections) :
                               collections'[i].meta = collections[i].meta
        \* a _setMeta call on collection c
        /\ Len(collections') = Len(collections) =>
              \A c \in 1..Len(collections), t \in Tables :
                  (lastBound'[c] = t /\ setMeta(c, t)) =>
                      /\ \A r \in FieldRefs : SameKey(fieldObjs[r], fieldObjs'[r], "name")
                      /\ \A i \in 1..Len(collections) :
                            i # c => collections'[i].meta = collections[i].meta
                      /\ DOMAIN collections'[c].meta = {"table"}

\* C10: defineCollection / defineWritableCollection return a new collection
\* with the user config's fields, indexes and foreignKeys, write nothing but
\* the `name` of its fields and leave the user config object as it was;
\* _setMeta changes only the bound table and the fields' `collection`.
C10_Frame == [][C10_Step]_vars

\* a collection made from a user config with indexes and foreignKeys, whose
\* fields have been named and which has been bound to a table
C10_Witness ==
    /\ revision = "part_000"
    /\ \E c \in 1..Len(collections) :
          /\ Has(collections[c].userConfig, "indexes")
          /\ lastBound[c] # NoTable
          /\ \A e \in Entries(FieldsOf(c)) :
                Has(fieldObjs[e[2]], "name") /\ Has(fieldObjs[e[2]], "collection")

----------------------------------------------------------------------------
(* Calls of the field constructors *)

Absent == <<"absent">>

\* what an options object may hold under each key (Absent: the key is not there)
OptionChoices ==
    [type : {Absent, Str("text"), Str("number"), Str("bogus")},
     optional : {Absent, Bool(TRUE), Bool(FALSE), Undefined},
     unique : {Absent, Bool(TRUE), Undefined},
     multiline : {Absent, Bool(TRUE)}]

OptionsOf(ch) == [k \in {x \in DOMAIN ch : ch[x] # Absent} |-> ch[k]]

\* the arguments a constructor is called with: an options object, or nothing
FieldArgs == {Undefined} \cup {Obj(OptionsOf(ch)) : ch \in OptionChoices}

callField(kind) ==
    \E arg \in FieldArgs :
        /\ call' = [fn |-> kind, arg |-> arg, result |-> field(revision, kind, arg)]
        /\ UNCHANGED <<dbVars, zodVars, tsVars, ssrVars>>

callFieldNumber == callField("number")

callFieldBoolean == callField("boolean")

callFieldText == callField("text")

callFieldDate == callField("date")

callFieldJson == callField("json")

InitField ==
    /\ revision \in Revisions
    /\ fieldObjs = <<>>
    /\ collections = <<>>
    /\ lastBound = <<>>
    /\ call = NoCall
    /\ IdleZod
    /\ IdleTs
    /\ IdleSsr

NextField ==
    \/ callFieldNumber
    \/ callFieldBoolean
    \/ callFieldText
    \/ callFieldDate
    \/ callFieldJson

SpecField == InitField /\ [][NextField]_vars

\* C5: field.number, field.boolean, field.text, field.date and field.json
\* return, for every options object, an object whose `type` is their own kind,
\* in both revisions.
C5_TypeIsOwnKind ==
    call.fn # "none" => Get(call.result, "type") = Str(call.fn)

IsBool(v) == v \in {Bool(TRUE), Bool(FALSE)}

\* the keys a config.ts constructor fills in with false
FalseDefaults(kind) ==
    IF kind = "text" THEN {"optional", "unique", "multiline"} ELSE {"optional", "unique"}

DefaultsFilled ==
    \A k \in FalseDefaults(call.fn) :
        ~Has(SpreadArg(call.arg), k) => Get(call.result, k) = Bool(FALSE)

OptionsOverride ==
    \A k \in DOMAIN SpreadArg(call.arg) :
        Has(call.result, k) /\ call.result[k] = SpreadArg(call.arg)[k]

\* C9 as stated: in config.ts every constructor fills in optional = false,
\* unique = false (text: multiline = false) for the keys the options do not
\* carry, keeps the caller's value for every key they do carry, and so always
\* returns boolean `optional` and `unique`.
C9_Original ==
    (revision = "config.ts" /\ call.fn # "none") =>
        /\ DefaultsFilled
        /\ OptionsOverride
        /\ IsBool(Get(call.result, "optional"))
        /\ IsBool(Get(call.result, "unique"))

\* C9 amended: the defaults are filled in and the caller's values kept as
\* stated; `optional` and `unique` are boolean whenever the options carry no
\* non-boolean value under that key.
C9_DefaultsAndOverrides ==
    (revision = "config.ts" /\ call.fn # "none") =>
        /\ DefaultsFilled
        /\ OptionsOverride
        /\ \A k \in {"optional", "unique"} :
              (Has(SpreadArg(call.arg), k) => IsBool(SpreadArg(call.arg)[k]))
              => IsBool(Get(call.result, k))

\* field.text called with options that carry `unique` but neither `optional`
\* nor `multiline`
C9_Witness ==
    /\ revision = "config.ts"
    /\ call.fn = "text"
    /\ call.arg # Undefined
    /\ DOMAIN SpreadArg(call.arg) = {"unique"}
    /\ call.result["multiline"] = Bool(FALSE)
    /\ call.result["optional"] = Bool(FALSE)
    /\ call.result["unique"] = Bool(TRUE)

----------------------------------------------------------------------------
(* Validation of a db config against dbConfigSchema.                       *)
(* A nested object is Obj(o), an array <<"array", seq>>, a Date             *)
(* <<"date", ms>> (an invalid Date: <<"date">>), a user function            *)
(* <<"function", value it returns>>.  A schema maps a value to Ok(output)   *)
(* or Err.                                                                  *)

Ok(v) == <<"ok", v>>
Err == <<"error">>
IsOk(r) == r[1] = "ok"

TypeOf(v) == v[1]

Arr(seq) == <<"array", seq>>

DateOf(ms) == <<"date", ms>>
InvalidDate == <<"date">>

\* a promise that fulfils with v, and one that rejects
PromiseOf(v) == <<"promise", v>>
Rejected == <<"promise">>

\* the function z.function().returns(schema) puts in place of the user's:
\* calling it validates the value the user's function returns
Checked(fn, schema) == <<"function", fn[2], schema>>

\* key absent or undefined: what .optional() lets through
Missing(o, k) == ~Has(o, k) \/ o[k] = Undefined

OptionalOfType(o, k, t) == Missing(o, k) \/ TypeOf(o[k]) = t

\* z.object() output: the keys of the shape the input carries, others stripped
Pick(o, keys) == [k \in (DOMAIN o) \cap keys |-> o[k]]

BaseFieldKeys == {"label", "optional", "unique", "name", "collection"}

baseFieldSchema(f) ==
    /\ OptionalOfType(f, "label", "string")
    /\ OptionalOfType(f, "optional", "boolean")
    /\ OptionalOfType(f, "unique", "boolean")
    /\ OptionalOfType(f, "name", "string")
    /\ OptionalOfType(f, "collection", "string")

booleanFieldSchema(f) ==
    IF /\ baseFieldSchema(f)
       /\ Get(f, "type") = Str("boolean")
       /\ OptionalOfType(f, "default", "boolean")
    THEN Ok(Pick(f, BaseFieldKeys \cup {"type", "default"}))
    ELSE Err

\* the output of a number or text field: `references` replaced by its
\* validating wrapper
WithCheckedReferences(out) ==
    IF Missing(out, "references") THEN out
    ELSE Assign(out, "references", Checked(out["references"], "referenceableFieldSchema"))

\* faulty variant: the default of a number field is not type-checked
numberFieldSchema_mut(f) ==
    IF /\ baseFieldSchema(f)
       /\ Get(f, "type") = Str("number")
       /\ OptionalOfType(f, "references", "function")
       /\ OptionalOfType(f, "primaryKey", "boolean")
    THEN Ok(WithCheckedReferences(
             Pick(f, BaseFieldKeys \cup {"type", "default", "references", "primaryKey"})))
    ELSE Err

numberFieldSchema(f) ==
    IF /\ baseFieldSchema(f)
       /\ Get(f, "type") = Str("number")
       /\ OptionalOfType(f, "default", "number")
       /\ OptionalOfType(f, "references", "function")
       /\ OptionalOfType(f, "primaryKey", "boolean")
    THEN Ok(WithCheckedReferences(
             Pick(f, BaseFieldKeys \cup {"type", "default", "references", "primaryKey"})))
    ELSE Err

textFieldSchema(f) ==
    IF /\ baseFieldSchema(f)
       /\ Get(f, "type") = Str("text")
       /\ OptionalOfType(f, "multiline", "boolean")
       /\ OptionalOfType(f, "default", "string")
       /\ OptionalOfType(f, "references", "function")
       /\ OptionalOfType(f, "primaryKey", "boolean")
    THEN Ok(WithCheckedReferences(
             Pick(f, BaseFieldKeys \cup {"type", "multiline", "default", "references",
                                         "primaryKey"})))
    ELSE Err

\* Date.parse of the strings the configs use
DateParse(str) ==
    CASE str = "1970-01-02" -> DateOf(86400000)
      [] OTHER -> InvalidDate

\* new Date(value), as z.coerce.date() does
coerceDate(v) ==
    CASE TypeOf(v) = "date" -> v
      [] TypeOf(v) = "number" -> DateOf(v[2])
      [] TypeOf(v) = "boolean" -> DateOf(IF v[2] THEN 1 ELSE 0)
      [] TypeOf(v) = "null" -> DateOf(0)
      [] TypeOf(v) = "string" -> DateParse(v[2])
      [] OTHER -> InvalidDate

\* Date.prototype.toISOString for the instants the configs reach
toISOString(d) ==
    CASE d[2] = 0 -> "1970-01-01T00:00:00.000Z"
      [] d[2] = 1 -> "1970-01-01T00:00:00.001Z"
      [] d[2] = 86400000 -> "1970-01-02T00:00:00.000Z"

\* z.union([z.literal('now'), z.coerce.date().transform(toISOString)])
dateDefaultSchema(v) ==
    IF v = Str("now") THEN Ok(v)
    ELSE IF coerceDate(v) # InvalidDate THEN Ok(Str(toISOString(coerceDate(v))))
    ELSE Err

dateFieldSchema(f) ==
    IF /\ baseFieldSchema(f)
       /\ Get(f, "type") = Str("date")
       /\ Missing(f, "default") \/ IsOk(dateDefaultSchema(f["default"]))
    THEN LET out == Pick(f, BaseFieldKeys \cup {"type", "default"})
         IN Ok(IF Missing(f, "default") THEN out
               ELSE Assign(out, "default", dateDefaultSchema(f["default"])[2]))
    ELSE Err

jsonFieldSchema(f) ==
    IF baseFieldSchema(f) /\ Get(f, "type") = Str("json")
    THEN Ok(Pick(f, BaseFieldKeys \cup {"type", "default"}))
    ELSE Err

\* z.union: the first option that accepts the value
fieldSchema(v) ==
    IF TypeOf(v) # "object" THEN Err
    ELSE CASE IsOk(booleanFieldSchema(v[2])) -> booleanFieldSchema(v[2])
           [] IsOk(numberFieldSchema(v[2])) -> numberFieldSchema(v[2])
           [] IsOk(textFieldSchema(v[2])) -> textFieldSchema(v[2])
           [] IsOk(dateFieldSchema(v[2])) -> dateFieldSchema(v[2])
           [] IsOk(jsonFieldSchema(v[2])) -> jsonFieldSchema(v[2])
           [] OTHER -> Err

referenceableFieldSchema(v) ==
    IF TypeOf(v) # "object" THEN Err
    ELSE CASE IsOk(textFieldSchema(v[2])) -> textFieldSchema(v[2])
           [] IsOk(numberFieldSchema(v[2])) -> numberFieldSchema(v[2])
           [] OTHER -> Err

\* z.record(fieldSchema)
fieldsSchema(v) ==
    IF TypeOf(v) # "object" THEN Err
    ELSE IF \A k \in DOMAIN v[2] : IsOk(fieldSchema(v[2][k]))
    THEN Ok([k \in DOMAIN v[2] |-> Obj(fieldSchema(v[2][k])[2])])
    ELSE Err

StringOrStrings(v) ==
    \/ TypeOf(v) = "string"
    \/ TypeOf(v) = "array" /\ \A i \in 1..Len(v[2]) : TypeOf(v[2][i]) = "string"

indexSchema(v) ==
    IF /\ TypeOf(v) = "object"
       /\ Has(v[2], "on") /\ StringOrStrings(v[2]["on"])
       /\ OptionalOfType(v[2], "unique", "boolean")
    THEN Ok(Pick(v[2], {"on", "unique"}))
    ELSE Err

foreignKeysSchema(v) ==
    IF /\ TypeOf(v) = "object"
       /\ Has(v[2], "fields") /\ StringOrStrings(v[2]["fields"])
       /\ Has(v[2], "references") /\ TypeOf(v[2]["references"]) = "function"
    THEN Ok([fields |-> v[2]["fields"],
             references |-> Checked(v[2]["references"], "referenceableFieldSchema or array")])
    ELSE Err

\* the keys of baseCollectionSchema, validated apart from `writable`
baseCollectionSchema(c) ==
    /\ Has(c, "fields") /\ IsOk(fieldsSchema(c["fields"]))
    /\ \/ Missing(c, "indexes")
       \/ /\ TypeOf(c["indexes"]) = "object"
          /\ \A k \in DOMAIN c["indexes"][2] : IsOk(indexSchema(c["indexes"][2][k]))
    /\ \/ Missing(c, "foreignKeys")
       \/ /\ TypeOf(c["foreignKeys"]) = "array"
          /\ \A i \in 1..Len(c["foreignKeys"][2]) :
                IsOk(foreignKeysSchema(c["foreignKeys"][2][i]))
    /\ OptionalOfType(c, "_setMeta", "function")

baseCollectionOutput(c) ==
    [k \in (DOMAIN c) \cap {"fields", "indexes", "foreignKeys", "table", "_setMeta", "writable"} |->
        CASE k = "fields" -> Obj(fieldsSchema(c[k])[2])
          [] k = "indexes" /\ ~Missing(c, k) ->
                Obj([x \in DOMAIN c[k][2] |-> Obj(indexSchema(c[k][2][x])[2])])
          [] k = "foreignKeys" /\ ~Missing(c, k) ->
                Arr([i \in 1..Len(c[k][2]) |-> Obj(foreignKeysSchema(c[k][2][i])[2])])
          [] OTHER -> c[k]]

readableCollectionSchema(c) ==
    IF baseCollectionSchema(c) /\ Get(c, "writable") = Bool(FALSE)
    THEN Ok(baseCollectionOutput(c)) ELSE Err

writableCollectionSchema(c) ==
    IF baseCollectionSchema(c) /\ Get(c, "writable") = Bool(TRUE)
    THEN Ok(baseCollectionOutput(c)) ELSE Err

collectionSchema(v) ==
    IF TypeOf(v) # "object" THEN Err
    ELSE CASE IsOk(readableCollectionSchema(v[2])) -> readableCollectionSchema(v[2])
           [] IsOk(writableCollectionSchema(v[2])) -> writableCollectionSchema(v[2])
           [] OTHER -> Err

\* z.record(collectionSchema)
collectionsSchema(v) ==
    IF TypeOf(v) # "object" THEN Err
    ELSE IF \A k \in DOMAIN v[2] : IsOk(collectionSchema(v[2][k]))
    THEN Ok([k \in DOMAIN v[2] |-> Obj(collectionSchema(v[2][k])[2])])
    ELSE Err

dbConfigSchema(cfg) ==
    IF /\ OptionalOfType(cfg, "studio", "boolean")
       /\ Missing(cfg, "collections") \/ IsOk(collectionsSchema(cfg["collections"]))
       /\ OptionalOfType(cfg, "data", "function")
    THEN Ok([k \in (DOMAIN cfg) \cap {"studio", "collections", "data"} |->
               CASE k = "collections" /\ ~Missing(cfg, k) -> Obj(collectionsSchema(cfg[k])[2])
                 [] k = "data" /\ ~Missing(cfg, k) -> Checked(cfg[k], "void or promise")
                 [] OTHER -> cfg[k]])
    ELSE Err

\* referenceableFieldSchema.or(z.array(referenceableFieldSchema))
referenceableOrArraySchema(v) ==
    IF TypeOf(v) = "array"
    THEN IF \A i \in 1..Len(v[2]) : IsOk(referenceableFieldSchema(v[2][i]))
         THEN Ok(Arr([i \in 1..Len(v[2]) |-> Obj(referenceableFieldSchema(v[2][i])[2])]))
         ELSE Err
    ELSE referenceableFieldSchema(v)

\* z.union([z.void(), z.promise(z.void())]): undefined, or a promise, whose
\* fulfilment value is validated when it settles
voidOrPromiseSchema(v) ==
    CASE v = Undefined -> Ok(v)
      [] TypeOf(v) = "promise" ->
            Ok(IF v # Rejected /\ v[2] = Undefined THEN v ELSE Rejected)
      [] OTHER -> Err

\* calling a function of the validated config: a wrapper validates what the
\* user's function returns and hands back the validated value
invoke(fn) ==
    CASE Len(fn) = 2 -> Ok(fn[2])
      [] fn[3] = "referenceableFieldSchema" -> referenceableFieldSchema(fn[2])
      [] fn[3] = "referenceableFieldSchema or array" -> referenceableOrArraySchema(fn[2])
      [] fn[3] = "void or promise" -> voidOrPromiseSchema(fn[2])

\* the collections of a config (input or validated), as a set of objects
CollectionsIn(cfg) ==
    IF Missing(cfg, "collections") THEN {}
    ELSE {cfg["collections"][2][k][2] : k \in DOMAIN cfg["collections"][2]}

FieldsIn(c) == {c["fields"][2][k][2] : k \in DOMAIN c["fields"][2]}

ForeignKeysIn(c) ==
    IF Missing(c, "foreignKeys") THEN {}
    ELSE {c["foreignKeys"][2][i][2] : i \in 1..Len(c["foreignKeys"][2])}

\* the `references` values of a config's fields and foreign keys
ReferencesIn(cfg) ==
    UNION {{f["references"] : f \in {x \in FieldsIn(c) : ~Missing(x, "references")}}
           \cup {fk["references"] : fk \in ForeignKeysIn(c)} : c \in CollectionsIn(cfg)}

(* The configs handed to validation *)

TextTarget == Obj([type |-> Str("text")])
BooleanTarget == Obj([type |-> Str("boolean")])
\* a text field whose own default is a number
BadDefaultTarget == Obj([type |-> Str("text"), default |-> Num(0)])
\* a number field carrying a key the schema does not know
NumberTarget == Obj([type |-> Str("number"), primaryKey |-> Bool(TRUE), extra |-> Num(1)])

FieldChoices ==
    [type : {Str(k) : k \in FieldKinds} \cup {Str("bogus")},
     default : {Absent, Bool(TRUE), Num(0), Str("x"), Str("now"), Str("1970-01-02"), DateOf(0)},
     references : {Absent, <<"function", TextTarget>>, <<"function", BooleanTarget>>,
                   <<"function", BadDefaultTarget>>, Str("users.id")}]

FieldInputs == {Obj(OptionsOf(ch)) : ch \in FieldChoices}

GoodField == Obj([type |-> Str("number"), primaryKey |-> Bool(TRUE)])

FieldsInputs ==
    {Obj([a |-> f]) : f \in FieldInputs} \cup {Obj([a |-> GoodField, b |-> f]) : f \in FieldInputs}

ForeignKey(references) == Obj([fields |-> Str("a"), references |-> references])

CollectionChoices ==
    [fields : FieldsInputs,
     writable : {Absent, Bool(TRUE), Bool(FALSE), Str("yes")},
     foreignKeys : {Absent, Arr(<<ForeignKey(<<"function", TextTarget>>)>>),
                    Arr(<<ForeignKey(<<"function", BooleanTarget>>)>>),
                    Arr(<<ForeignKey(<<"function", BadDefaultTarget>>)>>),
                    Arr(<<ForeignKey(<<"function", Arr(<<TextTarget, NumberTarget>>)>>)>>),
                    Arr(<<ForeignKey(<<"function", Arr(<<TextTarget, BooleanTarget>>)>>)>>),
                    Arr(<<ForeignKey(Str("users.id"))>>)}]

ConfigChoices ==
    [studio : {Absent, Bool(TRUE), Str("yes")},
     collections : {Obj([users |-> Obj(OptionsOf(ch))]) : ch \in CollectionChoices}]

ConfigInputs == {OptionsOf(ch) : ch \in ConfigChoices}

\* dbConfigSchema.safeParse(config), at config load
validateConfig ==
    /\ parsed = NotYet
    /\ parsed' = dbConfigSchema(config)
    /\ UNCHANGED <<dbVars, call, tsVars, ssrVars, config, resolved>>

\* later, on the validated config: the `references` functions are called
callReferences ==
    /\ parsed # NotYet /\ IsOk(parsed)
    /\ resolved = NotYet
    /\ resolved' = IF \A fn \in ReferencesIn(parsed[2]) : IsOk(invoke(fn))
                   THEN <<"ok">> ELSE Err
    /\ UNCHANGED <<dbVars, call, tsVars, ssrVars, config, parsed>>

InitZod ==
    /\ revision = "part_000"
    /\ fieldObjs = <<>>
    /\ collections = <<>>
    /\ lastBound = <<>>
    /\ call = NoCall
    /\ config \in ConfigInputs
    /\ parsed = NotYet
    /\ resolved = NotYet
    /\ IdleTs
    /\ IdleSsr

NextZod ==
    \/ validateConfig
    \/ callReferences

SpecZod == InitZod /\ [][NextZod]_vars

(* What counts as a malformed definition, read off the user's config *)

KindOf(f) == IF Get(f, "type") \in {Str(k) : k \in FieldKinds} THEN f["type"][2] ELSE "none"

BadType(f) == KindOf(f) = "none"

\* a date default as the config may state it: 'now', a valid Date, a calendar date
DateLike(d) == d = Str("now") \/ (TypeOf(d) = "date" /\ d # InvalidDate) \/ d = Str("1970-01-02")

\* a default whose type is not the one of the field's kind
WrongDefault(f) ==
    /\ ~Missing(f, "default")
    /\ CASE KindOf(f) = "boolean" -> TypeOf(f["default"]) # "boolean"
         [] KindOf(f) = "number" -> TypeOf(f["default"]) # "number"
         [] KindOf(f) = "text" -> TypeOf(f["default"]) # "string"
         [] KindOf(f) = "date" -> ~DateLike(f["default"])
         [] OTHER -> FALSE

\* a date default of another type that `new Date` turns into a valid date
CoercibleDateDefault(f) ==
    /\ KindOf(f) = "date"
    /\ ~Missing(f, "default")
    /\ TypeOf(f["default"]) \in {"number", "boolean", "null"}

BadWritable(c) == Get(c, "writable") \notin {Bool(TRUE), Bool(FALSE)}

\* a target is referenceable when referenceableFieldSchema accepts it: a
\* text or number field all of whose keys are valid
TargetIsReferenceable(v) == IsOk(referenceableFieldSchema(v))

\* a foreign key may also name an array of such fields
TargetsAreReferenceable(v) ==
    IF TypeOf(v) = "array"
    THEN \A i \in 1..Len(v[2]) : TargetIsReferenceable(v[2][i])
    ELSE TargetIsReferenceable(v)

\* `references` is a function, but what it returns is no valid text or
\* number field
BadTarget(references) ==
    TypeOf(references) = "function" /\ ~TargetIsReferenceable(references[2])

\* the same for the `references` of a foreign key
BadForeignTarget(references) ==
    TypeOf(references) = "function" /\ ~TargetsAreReferenceable(references[2])

\* the `references` values the schema looks at: those of number and text
\* fields
FieldReferencesOf(c) ==
    {f["references"] : f \in {x \in FieldsIn(c) :
                                 KindOf(x) \in {"number", "text"} /\ ~Missing(x, "references")}}

\* and those of foreign keys
ForeignReferencesOf(c) == {Get(fk, "references") : fk \in ForeignKeysIn(c)}

ReferencesOf(c) == FieldReferencesOf(c) \cup ForeignReferencesOf(c)

HasBadTarget(cfg) ==
    \E c \in CollectionsIn(cfg) :
        \/ \E r \in FieldReferencesOf(c) : BadTarget(r)
        \/ \E r \in ForeignReferencesOf(c) : BadForeignTarget(r)

Malformed(cfg) ==
    \/ \E c \in CollectionsIn(cfg) :
          \/ BadWritable(c)
          \/ \E f \in FieldsIn(c) : BadType(f) \/ WrongDefault(f)
          \/ \E r \in ReferencesOf(c) : TypeOf(r) # "function"
    \/ HasBadTarget(cfg)

\* malformed in a way validation itself sees
MalformedAtLoad(cfg) ==
    \E c \in CollectionsIn(cfg) :
        \/ BadWritable(c)
        \/ \E f \in FieldsIn(c) : BadType(f) \/ (WrongDefault(f) /\ ~CoercibleDateDefault(f))
        \/ \E r \in ReferencesOf(c) : TypeOf(r) # "function"

ISOStrings ==
    {"1970-01-01T00:00:00.000Z", "1970-01-01T00:00:00.001Z", "1970-01-02T00:00:00.000Z"}

\* a validated field: one of the five kinds, its default of the kind's output
\* type, its `references` wrapped, no key the schema does not know
ValidatedField(f) ==
    /\ KindOf(f) # "none"
    /\ DOMAIN f \subseteq BaseFieldKeys \cup
           {"type", "default", "references", "primaryKey", "multiline"}
    /\ \/ Missing(f, "default")
       \/ CASE KindOf(f) = "boolean" -> TypeOf(f["default"]) = "boolean"
            [] KindOf(f) = "number" -> TypeOf(f["default"]) = "number"
            [] KindOf(f) = "text" -> TypeOf(f["default"]) = "string"
            [] KindOf(f) = "date" ->
                  f["default"] = Str("now") \/
                  (TypeOf(f["default"]) = "string" /\ f["default"][2] \in ISOStrings)
            [] OTHER -> TRUE
    /\ Missing(f, "references") \/
          (KindOf(f) \in {"number", "text"} /\ TypeOf(f["references"]) = "function"
           /\ Len(f["references"]) = 3)

FullyValidated(data) ==
    /\ OptionalOfType(data, "studio", "boolean")
    /\ \A c \in CollectionsIn(data) :
          /\ ~BadWritable(c)
          /\ \A f \in FieldsIn(c) : ValidatedField(f)
          /\ \A fk \in ForeignKeysIn(c) :
                TypeOf(fk["references"]) = "function" /\ Len(fk["references"]) = 3

\* C6 as stated: validation returns a fully validated config or an error, and
\* a config with any malformed definition (a field type outside the five
\* kinds, a default of the wrong type, a non-boolean `writable`, a
\* `references` that does not resolve to a text or number field) is rejected
\* by validation itself.
C6_Original ==
    parsed # NotYet =>
        /\ IsOk(parsed) => FullyValidated(parsed[2])
        /\ Malformed(config) => parsed = Err

\* C6 amended: validation returns a fully validated config or an error, and
\* rejects a field type outside the five kinds, a boolean / number / text
\* default of the wrong type, a date default that is neither 'now' nor turned
\* into a valid date by `new Date`, a non-boolean `writable` and a `references`
\* that is not a function; what a `references` function returns is validated
\* only when the validated config's function is called, which then fails
\* exactly when a target is no valid text or number field (for a foreign key:
\* no such field and no array of such fields).
C6_FailFastExceptTargets ==
    parsed # NotYet =>
        /\ IsOk(parsed) => FullyValidated(parsed[2])
        /\ MalformedAtLoad(config) => parsed = Err
        /\ resolved # NotYet => (resolved = Err <=> HasBadTarget(config))

\* a config accepted by validation whose text field references a boolean
\* field, found out when the references are called
C6_Witness ==
    /\ parsed # NotYet /\ IsOk(parsed)
    /\ HasBadTarget(config)
    /\ resolved = Err

----------------------------------------------------------------------------
(* loadTSConfig(dir): which of tsconfig.json / jsconfig.json is loaded *)

Directories == {"fixtures/tsconfig-handling", "fixtures/tsconfig-handling/jsconfig"}

\* a config file is absent, unparsable, or holds a `files` entry
FileStates == {"absent", "invalid", "im-a-test", "im-a-test-js"}

\* path.join(dir, name)
join(dir, name) == dir \o "/" \o name

\* the parsed file, or 'invalid-config'
safeParse(dir, name, file) ==
    IF file = "invalid" THEN Str("invalid-config")
    ELSE Obj([tsconfigFile |-> Str(join(dir, name)),
              tsconfig |-> Obj([files |-> Arr(<<Str(file)>>)])])

\* faulty variant: jsconfig.json is preferred to tsconfig.json
loadTSConfig_mut(fs, dir) ==
    IF fs[dir].jsconfig # "absent" THEN safeParse(dir, "jsconfig.json", fs[dir].jsconfig)
    ELSE IF fs[dir].tsconfig # "absent" THEN safeParse(dir, "tsconfig.json", fs[dir].tsconfig)
    ELSE Str("missing-config")

loadTSConfig(fs, dir) ==
    IF fs[dir].tsconfig # "absent" THEN safeParse(dir, "tsconfig.json", fs[dir].tsconfig)
    ELSE IF fs[dir].jsconfig # "absent" THEN safeParse(dir, "jsconfig.json", fs[dir].jsconfig)
    ELSE Str("missing-config")

callLoadTSConfig ==
    \E dir \in Directories :
        /\ loaded' = [dir |-> dir, result |-> loadTSConfig(dirs, dir)]
        /\ UNCHANGED <<dbVars, call, zodVars, dirs, ssrVars>>

InitTs ==
    /\ revision = "part_000"
    /\ fieldObjs = <<>>
    /\ collections = <<>>
    /\ lastBound = <<>>
    /\ call = NoCall
    /\ IdleZod
    /\ dirs \in [Directories -> [tsconfig : FileStates, jsconfig : FileStates]]
    /\ loaded = NoLoad
    /\ IdleSsr

NextTs == callLoadTSConfig

SpecTs == InitTs /\ [][NextTs]_vars

\* C7: loadTSConfig(dir) returns dir's tsconfig.json with its parsed contents
\* if there is one, else dir's jsconfig.json if there is one; it returns the
\* value 'invalid-config' if the file found is invalid and 'missing-config' if
\* there is none, and throws in neither case.
C7_ResolutionOrder ==
    loaded.dir # "none" =>
        LET ts == dirs[loaded.dir].tsconfig
            js == dirs[loaded.dir].jsconfig
            found == IF ts # "absent" THEN "tsconfig.json" ELSE "jsconfig.json"
            file == IF ts # "absent" THEN ts ELSE js
        IN /\ file = "absent" => loaded.result = Str("missing-config")
           /\ file = "invalid" => loaded.result = Str("invalid-config")
           /\ file \notin {"absent", "invalid"} =>
                 /\ TypeOf(loaded.result) = "object"
                 /\ loaded.result[2]["tsconfigFile"] = Str(join(loaded.dir, found))
                 /\ loaded.result[2]["tsconfig"][2]["files"] = Arr(<<Str(file)>>)

\* a directory with no tsconfig.json and a valid jsconfig.json, loaded
C7_Witness ==
    /\ loaded.dir # "none"
    /\ dirs[loaded.dir].tsconfig = "absent"
    /\ dirs[loaded.dir].jsconfig = "im-a-test-js"
    /\ TypeOf(loaded.result) = "object"
    /\ loaded.result[2]["tsconfigFile"] =
           Str("fixtures/tsconfig-handling/jsconfig/jsconfig.json")

----------------------------------------------------------------------------
(* A server-output build and the app it produces: the prerender decision *)

Pages == {"src/pages/static.astro", "src/pages/not-prerendered.astro"}

RouteOf(page) ==
    IF page = "src/pages/static.astro" THEN "/static" ELSE "/not-prerendered"

HtmlOf(page) == RouteOf(page) \o "/index.html"

\* An 'astro:build:setup' hook: the build target it acts on ("none": no
\* integration) and what it assigns to each page's route.prerender.
Hooks == [target : {"server", "client", "none"}, set : [Pages -> {"keep", "true", "false"}]]

\* a project: each page's own `export const prerender`, and the integration
Fixtures == [declared : [Pages -> BOOLEAN], hook : Hooks]

\* the hook called with ({ pages, target })
buildSetupHook(hook, flags, target) ==
    IF hook.target # target THEN flags
    ELSE [p \in Pages |-> IF hook.set[p] = "keep" THEN flags[p] ELSE hook.set[p] = "true"]

\* faulty variant: the static pages are chosen by the pages' own declarations
prerenderedAssets_mut(flags) == {HtmlOf(p) : p \in {x \in Pages : fixture.declared[x]}}

\* the HTML files of the prerendered routes, listed in manifest.assets
prerenderedAssets(flags) == {HtmlOf(p) : p \in {x \in Pages : flags[x]}}

\* the status app.render answers for a page's route
renderStatus(flags, page) == IF flags[page] THEN 404 ELSE 200

buildServer ==
    /\ phase = "loaded"
    /\ prerender' = buildSetupHook(fixture.hook, prerender, "server")
    /\ phase' = "server"
    /\ UNCHANGED <<dbVars, call, zodVars, tsVars, fixture, assets, response>>

buildClient ==
    /\ phase = "server"
    /\ prerender' = buildSetupHook(fixture.hook, prerender, "client")
    /\ phase' = "client"
    /\ UNCHANGED <<dbVars, call, zodVars, tsVars, fixture, assets, response>>

generatePages ==
    /\ phase = "client"
    /\ assets' = prerenderedAssets(prerender)
    /\ phase' = "built"
    /\ UNCHANGED <<dbVars, call, zodVars, tsVars, fixture, prerender, response>>

appRender ==
    \E page \in Pages :
        /\ phase = "built"
        /\ response' = [route |-> RouteOf(page), status |-> renderStatus(prerender, page)]
        /\ UNCHANGED <<dbVars, call, zodVars, tsVars, fixture, prerender, phase, assets>>

InitSsr ==
    /\ revision = "part_000"
    /\ fieldObjs = <<>>
    /\ collections = <<>>
    /\ lastBound = <<>>
    /\ call = NoCall
    /\ IdleZod
    /\ IdleTs
    /\ fixture \in Fixtures
    /\ prerender = fixture.declared
    /\ phase = "loaded"
    /\ assets = {}
    /\ response = NoResponse

NextSsr ==
    \/ buildServer
    \/ buildClient
    \/ generatePages
    \/ appRender

SpecSsr == InitSsr /\ [][NextSsr]_vars

\* the flag of a page once the 'astro:build:setup' hooks have run: what the
\* integration assigned, else the page's own declaration
FinalFlag(page) ==
    IF fixture.hook.target # "none" /\ fixture.hook.set[page] # "keep"
    THEN fixture.hook.set[page] = "true"
    ELSE fixture.declared[page]

\* C8: in a server-output build a route whose prerender flag is true after the
\* 'astro:build:setup' hooks is not rendered by the app (404) and its HTML is
\* in the manifest assets, a route whose final flag is false is rendered
\* (200); a hook that flips the flag overrides the page's own declaration.
C8_PrerenderDecision ==
    phase = "built" =>
        \A page \in Pages :
            /\ HtmlOf(page) \in assets <=> FinalFlag(page)
            /\ response.route = RouteOf(page) =>
                  response.status = (IF FinalFlag(page) THEN 404 ELSE 200)

\* the integration of the acceptance test: on the client build it makes the
\* prerendered /static dynamic and /not-prerendered static; /static answers 200
C8_Witness ==
    /\ phase = "built"
    /\ fixture.declared["src/pages/static.astro"]
    /\ ~fixture.declared["src/pages/not-prerendered.astro"]
    /\ fixture.hook.target = "client"
    /\ fixture.hook.set["src/pages/static.astro"] = "false"
    /\ fixture.hook.set["src/pages/not-prerendered.astro"] = "true"
    /\ response.route = "/static" /\ response.status = 200
    /\ assets = {"/not-prerendered/index.html"}

====
